---- MODULE Spec2Model ----
(***************************************************************************)
(* lookupType of browse.go: the browsing loop of a DNS-SD client.          *)
(*                                                                         *)
(* Three parties run concurrently:                                         *)
(*   - the query-scheduler goroutine (browse.go 96-135), which sends one   *)
(*     *Query per multicast interface on the unbuffered channel qs, once   *)
(*     or with exponential backoff;                                        *)
(*   - the reader behind conn.Read, which delivers inbound messages on ch; *)
(*   - the select loop (browse.go 137-212), which owns the cache and the   *)
(*     announced entries es and invokes the add and rmv callbacks.         *)
(*                                                                         *)
(* Each case of the select loop is one action that models the whole case   *)
(* body.  The record cache (NewCache, UpdateFrom, Services), the           *)
(* transport and MulticastInterfaces are collaborators whose code is not   *)
(* part of browse.go; they are modelled from their contracts.              *)
(***************************************************************************)
EXTENDS Integers, Sequences, FiniteSets, TLC

(***************************************************************************)
(* Bounds of the model.                                                    *)
(***************************************************************************)
\* inbound messages handled in one session of the full specification
MaxMsgs == 1
\* inbound messages handled in one session of the reconciler specification
ReconMsgs == 2
\* backoff waits that elapse in one session of the full specification
MaxTicks == 2
\* backoff waits that elapse in one session of the scheduler specification
MaxCounter == 66
\* the clock (seconds) stops advancing here
MaxTime == 2
\* largest TTL (seconds) a record is announced with
MaxTTL == 1
\* inbound messages handled in one session of the event-order specification
OrderMsgs == 2

(***************************************************************************)
(* int64 arithmetic.  time.Duration and int are 64 bits wide; a value is   *)
(* the tuple of its 8 bytes in two's complement, least significant first.  *)
(***************************************************************************)
\* bytes of an int64
Limbs == 8

\* values of a byte
Base == 256

LimbPos == 1 .. Limbs

\* the int64 of a natural number below 2^31
FromNat(n) ==
  [p \in LimbPos |-> IF p <= 4 THEN (n \div (Base ^ (p - 1))) % Base ELSE 0]

ZeroBV == [p \in LimbPos |-> 0]

\* 1 << c for c >= 0: the one bit is lost when c is 64 or more
ShlOne(c) ==
  [p \in LimbPos |-> IF c \div 8 = p - 1 THEN 2 ^ (c % 8) ELSE 0]

RECURSIVE ColSum(_, _, _, _)
\* the sum of a[i] * b[j] over the positions with i + j = p + 1, i from q
ColSum(a, b, p, q) ==
  IF q > p THEN 0 ELSE a[q] * b[p + 1 - q] + ColSum(a, b, p, q + 1)

RECURSIVE Carry(_, _, _)
\* the carry into position p of the product
Carry(a, b, p) ==
  IF p = 1 THEN 0
  ELSE (ColSum(a, b, p - 1, 1) + Carry(a, b, p - 1)) \div Base

\* a * b modulo 2^64
MulBV(a, b) ==
  <<(ColSum(a, b, 1, 1) + Carry(a, b, 1)) % Base,
    (ColSum(a, b, 2, 1) + Carry(a, b, 2)) % Base,
    (ColSum(a, b, 3, 1) + Carry(a, b, 3)) % Base,
    (ColSum(a, b, 4, 1) + Carry(a, b, 4)) % Base,
    (ColSum(a, b, 5, 1) + Carry(a, b, 5)) % Base,
    (ColSum(a, b, 6, 1) + Carry(a, b, 6)) % Base,
    (ColSum(a, b, 7, 1) + Carry(a, b, 7)) % Base,
    (ColSum(a, b, 8, 1) + Carry(a, b, 8)) % Base>>

\* the sign bit
IsNegBV(a) == a[Limbs] >= Base \div 2

RECURSIVE ULessFrom(_, _, _)
ULessFrom(a, b, p) ==
  IF p < 1 THEN FALSE
  ELSE IF a[p] # b[p] THEN a[p] < b[p]
       ELSE ULessFrom(a, b, p - 1)

\* signed a < b
LessBV(a, b) ==
  IF IsNegBV(a) # IsNegBV(b) THEN IsNegBV(a) ELSE ULessFrom(a, b, Limbs)

\* time.Second, in nanoseconds
SecondNs == 1000000000

\* seconds in time.Hour
HourSeconds == 3600

Second == FromNat(SecondNs)

Hour == MulBV(FromNat(HourSeconds), Second)

(***************************************************************************)
(* The session's parameters.                                               *)
(***************************************************************************)
\* the service argument of lookupType
service == "_http._tcp.local."

\* what MulticastInterfaces(ifaces...) returns, in its order
MulticastInterfaces == <<"en0", "en1">>

\* rand.Intn(n) returns a value in [0, n)
RandIntn(n) == 0 .. (n - 1)

JitterSpan == 100

JitterBase == 20

\* JitterChoices without the +20
JitterChoicesUnshifted == RandIntn(JitterSpan)

\* the milliseconds of the first delay: rand.Intn(100)+20
JitterChoices == {r + JitterBase : r \in RandIntn(JitterSpan)}

\* the delays the full specification starts from: the shortest and the longest
JitterSample ==
  {j \in JitterChoices :
     (\A k \in JitterChoices : j <= k) \/ (\A k \in JitterChoices : j >= k)}


Ifaces == {MulticastInterfaces[i] : i \in 1 .. Len(MulticastInterfaces)}

\* (instance name, service type) of the service instances on the network
Instances ==
  {<<"foo", "_http._tcp">>, <<"bar", "_http._tcp">>, <<"foo", "_ipp._tcp">>}

Domain == "local"

TTLs == 1 .. MaxTTL

\* an inbound message: the interface it was received on and the records it
\* carries (PTR/SRV with a TTL for each instance, with or without addresses)
Requests ==
  [iface : Ifaces, answers : (SUBSET Instances) \ {{}}, ttl : TTLs,
   addr : BOOLEAN]

RECURSIVE Perms(_)
\* every order in which a range statement may visit the members of S
Perms(S) ==
  IF S = {} THEN {<<>>}
  ELSE UNION {{<<x>> \o p : p \in Perms(S \ {x})} : x \in S}

VARIABLES
  continuous,    \* the continuous argument of lookupType
  cancelled,     \* ctx is cancelled
  cancelPc,      \* history: where the scheduler was when ctx was cancelled
  mainPc,        \* the select loop: "select" or "returned"
  result,        \* the error lookupType returned
  schedPc,       \* the scheduler goroutine: "sleep", "send", "wait", "done"
  jitter,        \* milliseconds of the first delay, while it is pending
  qi,            \* index of the interface whose query is being sent on qs
  counter,       \* counter of the scheduler
  interval,      \* interval of the scheduler (int64 nanoseconds)
  tickTriggers,  \* history: interfaces of the queries received in this tick
  ntrig,         \* history: queries received on qs in the session
  msgs,          \* the dns.Msg values: m, the copy of the query being sent,
                 \* and which of the two q.msg points to
  cache,         \* the records held by the cache
  now,           \* the clock, in seconds
  snap,          \* history: the snapshot the loop saw last in a removal pass
  es,            \* the announced entries
  cbs,           \* callbacks invoked by the last iteration of the loop
  seen,          \* history: es as it was at each of these callbacks
  live,          \* history: pairs whose last callback was add
  lastQ,         \* the query passed to SendQuery by the last iteration
  nmsgs,         \* history: inbound messages handled
  sendFailed     \* history: a SendQuery of the session returned an error

vars ==
  <<continuous, cancelled, cancelPc, mainPc, result, schedPc, jitter, qi,
    counter, interval, tickTriggers, ntrig, msgs, cache, now, snap, es, cbs,
    seen, live, lastQ, nmsgs, sendFailed>>

schedVars ==
  <<schedPc, jitter, qi, counter, interval, tickTriggers, ntrig, msgs>>

mainVars == <<cache, snap, es, cbs, seen, live, lastQ, nmsgs, sendFailed>>

(***************************************************************************)
(* The record cache.                                                       *)
(***************************************************************************)
\* <type>.<domain>. of a record
ServiceName(srv) == srv.Type \o "." \o srv.Domain \o "."

\* <instance>.<type>.<domain>. of a record
SrvInstanceName(srv) ==
  srv.Name \o "." \o srv.Type \o "." \o srv.Domain \o "."

Expired(srv, t) == t > srv.expiration

\* cache.Services(): the records that have not expired
Services(c, t) == {srv \in c : ~Expired(srv, t)}

\* cache.UpdateFrom(req): merge the records of req, refresh TTL and
\* expiration, add the receiving interface to the addresses, drop what expired
UpdateFrom(c, req, t) ==
  LET known == {<<srv.Name, srv.Type>> : srv \in c}
      refreshed ==
        {IF <<srv.Name, srv.Type>> \in req.answers
           THEN [srv EXCEPT !.TTL = req.ttl, !.expiration = t + req.ttl,
                            !.ifaceIPs = IF req.addr THEN @ \cup {req.iface}
                                         ELSE @]
           ELSE srv : srv \in c}
      created ==
        {[Name |-> k[1], Type |-> k[2], Domain |-> Domain,
          ifaceIPs |-> IF req.addr THEN {req.iface} ELSE {},
          TTL |-> req.ttl, expiration |-> t + req.ttl]
           : k \in req.answers \ known}
  IN  {srv \in refreshed \cup created : ~Expired(srv, t)}

(***************************************************************************)
(* BrowseEntry.                                                            *)
(***************************************************************************)
NewBrowseEntry(srv, ifaceName) ==
  [Name |-> srv.Name, IfaceName |-> ifaceName, Type |-> srv.Type,
   Domain |-> srv.Domain]

\* BrowseEntry.ServiceInstanceName
ServiceInstanceName(e) == e.Name \o "." \o e.Type \o "." \o e.Domain \o "."

(***************************************************************************)
(* The case req := <-ch: the addition pass and the removal pass.  A pass   *)
(* works on st = [es, cbs, seen]: the entries so far, the callbacks        *)
(* invoked so far, in order, and the value of the variable es at each of   *)
(* these calls.  In the removal pass st.es is tmp and st.old is es, which   *)
(* is assigned only when the pass is over.                                 *)
(***************************************************************************)
\* Found with the loop over es lost: only the newest entry is compared
FoundLastOnly(entries, srv, ifaceName) ==
  /\ entries # <<>>
  /\ entries[Len(entries)].Name = srv.Name
  /\ entries[Len(entries)].IfaceName = ifaceName

\* Found with found never set: every pair counts as new
FoundNever(entries, srv, ifaceName) == FALSE

\* the inner search of the addition pass: an entry of es has this name and
\* this interface
Found(entries, srv, ifaceName) ==
  \E i \in 1 .. Len(entries) :
    entries[i].Name = srv.Name /\ entries[i].IfaceName = ifaceName

\* the body of the loop over srv.ifaceIPs for one interface
AddOne(st, srv, ifaceName) ==
  IF ~Found(st.es, srv, ifaceName)
    THEN LET e == NewBrowseEntry(srv, ifaceName)
         IN  [st EXCEPT !.es = Append(@, e),
                        !.cbs = Append(@, [op |-> "add", e |-> e]),
                        !.seen = Append(@, Append(st.es, e))]
    ELSE st

\* AddIfaces that leaves the loop after the first interface
AddIfacesFirstOnly(st, srv, ifs) ==
  IF ifs = <<>> THEN st ELSE AddOne(st, srv, Head(ifs))

RECURSIVE AddIfaces(_, _, _)
\* the loop over srv.ifaceIPs, visited in the order ifs
AddIfaces(st, srv, ifs) ==
  IF ifs = <<>> THEN st
  ELSE AddIfaces(AddOne(st, srv, Head(ifs)), srv, Tail(ifs))

RECURSIVE AddPass(_, _)
\* the loop over cache.Services(); iter is the order of the visit: a
\* sequence of [srv, ifs], ifs the order in which srv.ifaceIPs is visited
AddPass(st, iter) ==
  IF iter = <<>> THEN st
  ELSE IF ServiceName(Head(iter).srv) # service
         THEN AddPass(st, Tail(iter))
         ELSE AddPass(AddIfaces(st, Head(iter).srv, Head(iter).ifs),
                      Tail(iter))

\* StillCached comparing the instance names without type and domain
StillCachedByName(e, snapshot) == \E srv \in snapshot : srv.Name = e.Name

\* the inner search of the removal pass: a record of the cache has the
\* entry's service instance name
StillCached(e, snapshot) ==
  \E srv \in snapshot : SrvInstanceName(srv) = ServiceInstanceName(e)

\* RemoveOne that calls rmv and keeps the entry all the same
RemoveOneKeep(st, e, snapshot) ==
  IF StillCached(e, snapshot)
    THEN [st EXCEPT !.es = Append(@, e)]
    ELSE [st EXCEPT !.es = Append(@, e),
                    !.cbs = Append(@, [op |-> "rmv", e |-> e]),
                    !.seen = Append(@, st.old)]

\* the body of the loop over es for one entry; st.es is tmp
RemoveOne(st, e, snapshot) ==
  IF StillCached(e, snapshot)
    THEN [st EXCEPT !.es = Append(@, e)]
    ELSE [st EXCEPT !.cbs = Append(@, [op |-> "rmv", e |-> e]),
                    !.seen = Append(@, st.old)]

RECURSIVE RemovePass(_, _, _)
\* the loop over es that builds tmp
RemovePass(st, entries, snapshot) ==
  IF entries = <<>> THEN st
  ELSE RemovePass(RemoveOne(st, Head(entries), snapshot), Tail(entries),
                  snapshot)

\* Reconcile with the passes in the other order
ReconcileRemoveFirst(entries, iter, snapshot) ==
  LET removed == RemovePass([es |-> <<>>, cbs |-> <<>>, seen |-> <<>>,
                             old |-> entries],
                            entries, snapshot)
  IN  AddPass(removed, iter)

\* both passes: the entries and the callbacks after one inbound message
Reconcile(entries, iter, snapshot) ==
  LET added == AddPass([es |-> entries, cbs |-> <<>>, seen |-> <<>>], iter)
  IN  RemovePass([es |-> <<>>, cbs |-> added.cbs, seen |-> added.seen,
                  old |-> added.es],
                 added.es, snapshot)

RECURSIVE IterOrders(_)
\* the orders in which the addition pass may visit a snapshot: Go visits a
\* map in an unspecified order, and both Services() and ifaceIPs are maps
IterOrders(snapshot) ==
  IF snapshot = {} THEN {<<>>}
  ELSE UNION {{<<[srv |-> x, ifs |-> ifs]>> \o rest :
                 ifs \in Perms(x.ifaceIPs),
                 rest \in IterOrders(snapshot \ {x})}
               : x \in snapshot}

Pair(e) == <<e.Name, e.IfaceName>>

RECURSIVE LiveAfter(_, _)
\* history: the pairs whose last callback was add, after the callbacks cs
LiveAfter(l, cs) ==
  IF cs = <<>> THEN l
  ELSE LiveAfter(IF Head(cs).op = "add" THEN l \cup {Pair(Head(cs).e)}
                 ELSE l \ {Pair(Head(cs).e)}, Tail(cs))

(***************************************************************************)
(* The case q := <-qs: known-answer suppression and the send.              *)
(***************************************************************************)
\* Fresh with >= for >: a record at exactly half its TTL counts as fresh
FreshOrHalf(srv, t) == (srv.expiration - t) * 2 >= srv.TTL

\* time.Until(srv.expiration) > srv.TTL/2.  A TTL is a whole number of
\* seconds, so TTL/2 is exact in nanoseconds; both sides are doubled here
Fresh(srv, t) == (srv.expiration - t) * 2 > srv.TTL

\* the answer section: PTR(*srv) is identified by the instance name
KnownAnswers(snapshot, t) ==
  {SrvInstanceName(srv) :
     srv \in {s \in snapshot : ServiceName(s) = service /\ Fresh(s, t)}}

\* QueryCase that sweeps the announced entries as the removal pass does
QueryCaseSweep(c, entries, t) ==
  LET st == RemovePass([es |-> <<>>, cbs |-> <<>>, seen |-> <<>>,
                        old |-> entries],
                       entries, Services(c, t))
  IN  [cache |-> c, es |-> st.es, cbs |-> st.cbs,
       answer |-> KnownAnswers(Services(c, t), t)]

\* lines 141-153: what the case q := <-qs does with the state of the loop.
\* It reads the cache to build the answer section; it assigns neither the
\* cache nor es and calls neither add nor rmv
QueryCase(c, entries, t) ==
  [cache |-> c, es |-> entries, cbs |-> <<>>,
   answer |-> KnownAnswers(Services(c, t), t)]

\* AfterSendQuery that returns the error of a failed send
AfterSendQueryAbort(err) ==
  IF err THEN [pc |-> "returned", result |-> "SendQuery error"]
  ELSE [pc |-> "select", result |-> "none"]

\* AfterSendQuery that leaves the loop after a failed send
AfterSendQueryStop(err) ==
  IF err THEN [pc |-> "returned", result |-> "none"]
  ELSE [pc |-> "select", result |-> "none"]

\* what the loop does with the error of conn.SendQuery: log it, go on
AfterSendQuery(err) == [pc |-> "select", result |-> "none"]

(***************************************************************************)
(* The scheduler goroutine.                                                *)
(***************************************************************************)
\* m of lines 81-88: the question for the service, no answer
NewMsg == [Question |-> service, Answer |-> {}]

\* the place of the copy while no query is being sent
NoMsg == [Question |-> "none", Answer |-> {}]

\* NewQuery without the Copy: q.msg is m itself
NewQueryShared(h) == [h EXCEPT !.ptr = "m"]

\* line 100: q := &Query{msg: m.Copy(), iface: iface}
NewQuery(h) == [h EXCEPT !.copy = h.m, !.ptr = "copy"]

\* line 153: q.msg.Answer = answer
SetAnswer(h, answer) == [h EXCEPT ![h.ptr].Answer = answer]

\* the query is sent and no longer referenced
DropQuery(h) == [h EXCEPT !.copy = NoMsg, !.ptr = "none"]
\* NextInterval without the test interval < time.Hour around the shift
NextIntervalUnguarded(iv, c) ==
  LET v == MulBV(ShlOne(c), Second)
  IN  IF ~LessBV(v, Hour) \/ IsNegBV(v) THEN Hour ELSE v

\* lines 114-122: the interval after a tick
NextInterval(iv, c) ==
  IF LessBV(iv, Hour)
    THEN LET v == MulBV(ShlOne(c), Second)
         IN  IF ~LessBV(v, Hour) \/ IsNegBV(v) THEN Hour ELSE v
    ELSE iv

\* AfterQuery that enters the backoff loop whatever continuous is
AfterQueryLoop(cont) == "wait"

\* where the goroutine goes once query() has returned
AfterQuery(cont) == IF cont THEN "wait" ELSE "done"

Init ==
  /\ continuous \in BOOLEAN
  /\ cancelled = FALSE
  /\ cancelPc = "none"
  /\ mainPc = "select"
  /\ result = "none"
  /\ schedPc = "sleep"
  /\ jitter \in JitterSample
  /\ qi = 0
  /\ counter = 0
  /\ interval = ZeroBV
  /\ tickTriggers = <<>>
  /\ ntrig = 0
  /\ msgs = [m |-> NewMsg, copy |-> NoMsg, ptr |-> "none"]
  /\ cache = {}
  /\ now = 0
  /\ snap = {}
  /\ es = <<>>
  /\ cbs = <<>>
  /\ seen = <<>>
  /\ live = {}
  /\ lastQ = [iface |-> "none", answer |-> {}]
  /\ nmsgs = 0
  /\ sendFailed = FALSE

\* time.Sleep of the jitter is over; query() starts its loop
SleepDone ==
  /\ schedPc = "sleep"
  /\ schedPc' = "send"
  /\ jitter' = 0
  /\ qi' = 1
  /\ msgs' = NewQuery(msgs)
  /\ UNCHANGED <<counter, interval, tickTriggers, ntrig>>
  /\ UNCHANGED <<continuous, cancelled, cancelPc, mainPc, result, now>>
  /\ UNCHANGED mainVars

\* the scheduler's qs <- q meets the loop's q := <-qs: the loop handles the
\* query, the scheduler goes on to the next interface or leaves query()
RecvQuery ==
  /\ mainPc = "select"
  /\ schedPc = "send"
  /\ LET iface == MulticastInterfaces[qi]
         last == qi = Len(MulticastInterfaces)
         qc == QueryCase(cache, es, now)
         written == SetAnswer(msgs, qc.answer)
     IN  /\ lastQ' = [iface |-> iface, answer |-> written[msgs.ptr].Answer]
         /\ msgs' = IF last THEN DropQuery(written)
                    ELSE NewQuery(DropQuery(written))
         /\ cache' = qc.cache
         /\ es' = qc.es
         /\ cbs' = qc.cbs
         /\ live' = LiveAfter(live, qc.cbs)
         /\ \E err \in BOOLEAN :
              /\ mainPc' = AfterSendQuery(err).pc
              /\ result' = AfterSendQuery(err).result
              /\ sendFailed' = (sendFailed \/ err)
         /\ tickTriggers' = Append(tickTriggers, iface)
         /\ ntrig' = ntrig + 1
         /\ qi' = IF last THEN 0 ELSE qi + 1
         /\ schedPc' = IF last THEN AfterQuery(continuous) ELSE "send"
         /\ interval' = IF last /\ continuous
                          THEN NextInterval(interval, counter)
                          ELSE interval
  /\ seen' = <<>>
  /\ UNCHANGED <<jitter, counter, nmsgs, snap>>
  /\ UNCHANGED <<continuous, cancelled, cancelPc, now>>

\* case <-time.After(interval): the backoff wait is over.  The timer may
\* have fired when ctx is cancelled too: with both cases ready the select
\* takes either
TimerFire(bound) ==
  /\ schedPc = "wait"
  /\ counter < bound
  /\ counter' = counter + 1
  /\ schedPc' = "send"
  /\ qi' = 1
  /\ tickTriggers' = <<>>
  /\ msgs' = NewQuery(msgs)
  /\ UNCHANGED <<jitter, interval, ntrig>>
  /\ UNCHANGED <<continuous, cancelled, cancelPc, mainPc, result, now>>
  /\ UNCHANGED mainVars

\* case <-ctx.Done() of the scheduler: return
SchedCtxDone ==
  /\ schedPc = "wait"
  /\ cancelled
  /\ schedPc' = "done"
  /\ UNCHANGED <<jitter, qi, counter, interval, tickTriggers, ntrig, msgs>>
  /\ UNCHANGED <<continuous, cancelled, cancelPc, mainPc, result, now>>
  /\ UNCHANGED mainVars

\* case req := <-ch.  The addition pass ranges over the cache.Services() of
\* line 161; the removal pass calls cache.Services() anew (line 194).  The
\* calls of add in between take their time: the removal pass runs at t2,
\* the same second or a later one, when records of the first snapshot may
\* have expired
RecvMsg(bound) ==
  /\ mainPc = "select"
  /\ nmsgs < bound
  /\ \E req \in Requests, t2 \in now .. MaxTime :
       LET updated == UpdateFrom(cache, req, now)
           snapshot == Services(updated, now)
           later == Services(updated, t2)
       IN  \E iter \in IterOrders(snapshot) :
             LET st == Reconcile(es, iter, later)
             IN  /\ cache' = updated
                 /\ snap' = later
                 /\ es' = st.es
                 /\ cbs' = st.cbs
                 /\ seen' = st.seen
                 /\ live' = LiveAfter(live, st.cbs)
                 /\ now' = t2
  /\ nmsgs' = nmsgs + 1
  /\ lastQ' = [iface |-> "none", answer |-> {}]
  /\ UNCHANGED <<continuous, cancelled, cancelPc, mainPc, result>>
  /\ UNCHANGED sendFailed
  /\ UNCHANGED schedVars

\* case <-ctx.Done() of the loop: return ctx.Err()
Return ==
  /\ mainPc = "select"
  /\ cancelled
  /\ mainPc' = "returned"
  /\ result' = "ctx.Err"
  /\ UNCHANGED <<continuous, cancelled, cancelPc, now>>
  /\ UNCHANGED schedVars
  /\ UNCHANGED mainVars

\* the caller cancels ctx
Cancel ==
  /\ ~cancelled
  /\ cancelled' = TRUE
  /\ cancelPc' = schedPc
  /\ UNCHANGED <<continuous, mainPc, result, now>>
  /\ UNCHANGED schedVars
  /\ UNCHANGED mainVars

\* a second passes
Tick ==
  /\ now < MaxTime
  /\ now' = now + 1
  /\ UNCHANGED <<continuous, cancelled, cancelPc, mainPc, result>>
  /\ UNCHANGED schedVars
  /\ UNCHANGED mainVars

Next ==
  \/ SleepDone
  \/ RecvQuery
  \/ TimerFire(MaxTicks)
  \/ SchedCtxDone
  \/ RecvMsg(MaxMsgs)
  \/ Return
  \/ Cancel
  \/ Tick

\* the session: the scheduler, the reader, the loop, the caller, the clock
Spec == Init /\ [][Next]_vars

\* the goroutines keep running, and a select whose case stays ready takes it
\* in the end (Go picks among the ready cases uniformly at random)
Fairness ==
  /\ WF_vars(SleepDone)
  /\ WF_vars(RecvQuery)
  /\ WF_vars(SchedCtxDone)
  /\ WF_vars(Return)

FairSpec == Spec /\ Fairness

(***************************************************************************)
(* The reconciler on its own: the loop, the reader and the clock.  The     *)
(* case req := <-ch reads and writes nothing of the scheduler, and the     *)
(* scheduler nothing of cache, es and the callbacks, so the messages of a  *)
(* session are handled here as they are in Spec, and more of them fit.     *)
(* The scheduler stays where Init puts it.                                 *)
(***************************************************************************)
ReconNext ==
  \/ RecvMsg(ReconMsgs)
  \/ Tick

\* one session: single-shot, with the shortest first delay
ReconInit == Init /\ ~continuous /\ jitter = JitterBase

ReconSpec == ReconInit /\ [][ReconNext]_vars

(***************************************************************************)
(* The scheduler on its own: no inbound message arrives, the backoff runs  *)
(* far beyond the cap, and the first delay is any value rand.Intn yields.  *)
(***************************************************************************)
SchedInit ==
  /\ continuous \in BOOLEAN
  /\ cancelled = FALSE
  /\ cancelPc = "none"
  /\ mainPc = "select"
  /\ result = "none"
  /\ schedPc = "sleep"
  /\ jitter \in JitterChoices
  /\ qi = 0
  /\ counter = 0
  /\ interval = ZeroBV
  /\ tickTriggers = <<>>
  /\ ntrig = 0
  /\ msgs = [m |-> NewMsg, copy |-> NoMsg, ptr |-> "none"]
  /\ cache = {}
  /\ now = 0
  /\ snap = {}
  /\ es = <<>>
  /\ cbs = <<>>
  /\ seen = <<>>
  /\ live = {}
  /\ lastQ = [iface |-> "none", answer |-> {}]
  /\ nmsgs = 0
  /\ sendFailed = FALSE

SchedNext ==
  \/ SleepDone
  \/ RecvQuery
  \/ TimerFire(MaxCounter)
  \/ SchedCtxDone
  \/ Return
  \/ Cancel

SchedSpec == SchedInit /\ [][SchedNext]_vars

(***************************************************************************)
(* The events of a single-shot session: queries, inbound messages and the  *)
(* cancellation, in any order; the clock advances while a message is       *)
(* handled.                                                                *)
(***************************************************************************)
OrderNext ==
  \/ SleepDone
  \/ RecvQuery
  \/ RecvMsg(OrderMsgs)
  \/ Return
  \/ Cancel

OrderSpec == ReconInit /\ [][OrderNext]_vars

(***************************************************************************)
(* The known-answer filter on its own: the session starts with a cache     *)
(* that earlier messages have filled, no further message arrives, and the  *)
(* scheduler's queries meet records at every stage of their lifetime.      *)
(***************************************************************************)
\* (TTL, seconds left when the session is taken up) of the cached records
KnownLifetimes == {<<100, 60>>, <<100, 50>>, <<100, 40>>, <<2, 2>>, <<2, 1>>}

KnownRecords ==
  {[Name |-> k[1], Type |-> k[2], Domain |-> Domain,
    ifaceIPs |-> {MulticastInterfaces[1]}, TTL |-> l[1], expiration |-> l[2]]
     : k \in Instances, l \in KnownLifetimes}

\* the caches: each instance is absent or cached with one of the lifetimes
KnownCaches ==
  {c \in SUBSET KnownRecords :
     \A x, y \in c : x.Name = y.Name /\ x.Type = y.Type => x = y}

KnownInit ==
  /\ continuous \in BOOLEAN
  /\ cancelled = FALSE
  /\ cancelPc = "none"
  /\ mainPc = "select"
  /\ result = "none"
  /\ schedPc = "sleep"
  /\ jitter = JitterBase
  /\ qi = 0
  /\ counter = 0
  /\ interval = ZeroBV
  /\ tickTriggers = <<>>
  /\ ntrig = 0
  /\ msgs = [m |-> NewMsg, copy |-> NoMsg, ptr |-> "none"]
  /\ cache \in KnownCaches
  /\ now = 0
  /\ snap = {}
  /\ es = <<>>
  /\ cbs = <<>>
  /\ seen = <<>>
  /\ live = {}
  /\ lastQ = [iface |-> "none", answer |-> {}]
  /\ nmsgs = 0
  /\ sendFailed = FALSE

KnownNext ==
  \/ SleepDone
  \/ RecvQuery
  \/ TimerFire(MaxTicks)
  \/ Tick

KnownSpec == KnownInit /\ [][KnownNext]_vars

(***************************************************************************)
(* What the claims speak of.                                               *)
(***************************************************************************)
Range(sq) == {sq[i] : i \in 1 .. Len(sq)}

NoDup(sq) == \A i, j \in 1 .. Len(sq) : i # j => sq[i] # sq[j]

\* the (instance name, interface) pairs of a sequence of entries
PairSeq(entries) == [i \in 1 .. Len(entries) |-> Pair(entries[i])]

\* the entries of the callbacks of one kind, in the order of the calls
CallsOf(cs, op) ==
  LET sel == SelectSeq(cs, LAMBDA c : c.op = op)
  IN  [i \in 1 .. Len(sel) |-> sel[i].e]

\* the (instance name, interface) pairs of the browsed type in a snapshot
MatchingPairs(snapshot) ==
  UNION {{<<srv.Name, n>> : n \in srv.ifaceIPs}
           : srv \in {x \in snapshot : ServiceName(x) = service}}

\* the service instance names of a snapshot
InstanceNames(snapshot) == {SrvInstanceName(srv) : srv \in snapshot}

\* a step that handles an inbound message
MsgStep == nmsgs' # nmsgs

RECURSIVE Alternates(_, _)
\* the callbacks cs alternate per pair, given the pairs l whose last
\* callback was add: an add only for a pair not in l, a rmv only for one in l
Alternates(l, cs) ==
  IF cs = <<>> THEN TRUE
  ELSE LET p == Pair(Head(cs).e)
       IN  IF Head(cs).op = "add"
             THEN p \notin l /\ Alternates(l \cup {p}, Tail(cs))
             ELSE p \in l /\ Alternates(l \ {p}, Tail(cs))

\* C1: the announced set never holds two entries with the same (instance
\* name, interface) pair: not between two messages, and not between the
\* addition pass and the removal pass of one message (es followed by the
\* entries the addition pass appended).
C1_Dedup ==
  /\ [](NoDup(PairSeq(es)))
  /\ [][MsgStep => NoDup(PairSeq(es \o CallsOf(cbs', "add")))]_vars

\* C1's case: three entries are announced, two of them for one instance on
\* two interfaces, and the last message appended one of them
C1_Witness ==
  /\ Len(es) >= 3
  /\ \E i, j \in 1 .. Len(es) :
       i # j /\ es[i].Name = es[j].Name /\ es[i].IfaceName # es[j].IfaceName
  /\ CallsOf(cbs, "add") # <<>>

\* C2: add is called once for each entry appended and rmv once for each
\* entry dropped, so per (instance name, interface) pair the callbacks
\* alternate, add first: within each message the calls alternate with the
\* calls of the session so far, and at any time the pairs whose last call
\* was add are the pairs announced, one entry each.
C2_Alternation ==
  /\ [](live = Range(PairSeq(es)) /\ Cardinality(live) = Len(es))
  /\ [][MsgStep => Alternates(live, cbs')]_vars

\* C2's case: one message announced an entry and withdrew another
C2_Witness ==
  /\ CallsOf(cbs, "add") # <<>>
  /\ CallsOf(cbs, "rmv") # <<>>

\* C3: between the snapshot of one message (snap) and the snapshot of the
\* next (snap'), add is called exactly for the pairs of the browsed type
\* that are new, once each, and rmv exactly for the announced entries whose
\* instance name was in the first snapshot and is not in the second, once
\* each.
C3_DiffComplete ==
  [][MsgStep =>
       /\ NoDup(CallsOf(cbs', "add"))
       /\ Range(PairSeq(CallsOf(cbs', "add")))
            = MatchingPairs(snap') \ MatchingPairs(snap)
       /\ NoDup(CallsOf(cbs', "rmv"))
       /\ Range(CallsOf(cbs', "rmv"))
            = {e \in Range(es) :
                 /\ ServiceInstanceName(e) \in InstanceNames(snap)
                 /\ ServiceInstanceName(e) \notin InstanceNames(snap')}]_vars

C5_Scenario ==
  [][MsgStep =>
       \A n \in {k[1] : k \in Instances}, i \in Ifaces :
         LET e == [Name |-> n, IfaceName |-> i, Type |-> "_http._tcp",
                   Domain |-> Domain]
         IN  /\ (/\ snap = {} /\ es = <<>>
                 /\ MatchingPairs(snap') = {<<n, i>>})
                  => cbs' = <<[op |-> "add", e |-> e]>>
             /\ (/\ es = <<e>>
                 /\ MatchingPairs(snap) = {<<n, i>>}
                 /\ MatchingPairs(snap') = {<<n, i>>})
                  => cbs' = <<>> /\ es' = es
             /\ (/\ es = <<e>>
                 /\ MatchingPairs(snap) = {<<n, i>>}
                 /\ ServiceInstanceName(e) \notin InstanceNames(snap')
                 /\ MatchingPairs(snap') = {})
                  => cbs' = <<[op |-> "rmv", e |-> e]>> /\ es' = <<>>]_vars

\* C6: lookupType returns only through cancellation: it has returned only
\* if ctx is cancelled, and then with ctx.Err(); while it runs it has
\* returned nothing (not after the single tick, not after a failed send);
\* once it has returned nothing is announced, withdrawn or handled; and once
\* ctx is cancelled it returns in the end, whatever else is ready.
C6_ReturnsOnCancel ==
  /\ [](mainPc = "returned" => cancelled /\ result = "ctx.Err")
  /\ [](mainPc = "select" => result = "none")
  /\ [][mainPc = "returned" =>
          /\ mainPc' = "returned" /\ result' = result
          /\ es' = es /\ cbs' = cbs /\ live' = live /\ nmsgs' = nmsgs
          /\ ntrig' = ntrig]_vars
  /\ (cancelled ~> mainPc = "returned")

\* C6's case: a single-shot session that sent its queries, announced an
\* entry and then returned on cancellation
C6_Witness ==
  /\ mainPc = "returned"
  /\ ~continuous
  /\ schedPc = "done"
  /\ ntrig = Len(MulticastInterfaces)
  /\ es # <<>>

\* a step of the scheduler goroutine
SchedulerStep ==
  \/ SleepDone
  \/ RecvQuery
  \/ TimerFire(MaxTicks)
  \/ SchedCtxDone

\* C7: once lookupType has returned, the scheduler goroutine terminates: it
\* is done, or it can take a step (it is not blocked for ever).
C7_SchedulerTerminates ==
  mainPc = "returned" => schedPc = "done" \/ ENABLED SchedulerStep

\* C8: in continuous mode, if ctx is cancelled while the scheduler is in a
\* backoff wait, no query is put on qs after the cancellation.
C8_NoTriggerAfterCancel ==
  [][continuous /\ cancelPc = "wait" => ntrig' = ntrig]_vars

\* the interfaces of the queries of this tick are the first interfaces of
\* MulticastInterfaces, in order
TickPrefix ==
  /\ Len(tickTriggers) <= Len(MulticastInterfaces)
  /\ \A i \in 1 .. Len(tickTriggers) : tickTriggers[i] = MulticastInterfaces[i]

\* C9: in single-shot mode the scheduler ticks once: the queries received
\* are one per interface at most, in the order of the interfaces, each for
\* its interface; the scheduler never waits for a second tick; when it has
\* exited each interface had exactly one query and none follows; and unless
\* ctx is cancelled first, it does exit.
C9_SingleShot ==
  /\ [](~continuous =>
          /\ TickPrefix
          /\ ntrig = Len(tickTriggers)
          /\ counter = 0
          /\ schedPc # "wait"
          /\ (schedPc = "send" => qi = ntrig + 1)
          /\ (schedPc = "done" => tickTriggers = MulticastInterfaces))
  /\ [][~continuous /\ schedPc = "done" =>
          schedPc' = "done" /\ ntrig' = ntrig]_vars
  /\ (~continuous ~> (schedPc = "done" \/ cancelled))

\* C9's case: a single-shot session, not cancelled, whose scheduler exited
C9_Witness ==
  /\ ~continuous
  /\ ~cancelled
  /\ schedPc = "done"
  /\ tickTriggers = MulticastInterfaces
  /\ lastQ.iface = MulticastInterfaces[Len(MulticastInterfaces)]

\* whole seconds as a time.Duration
Seconds(n) == MulBV(FromNat(n), Second)

\* min(2^k, 3600)
BackoffSeconds(k) ==
  IF k > 30 THEN HourSeconds
  ELSE IF 2 ^ k < HourSeconds THEN 2 ^ k ELSE HourSeconds

\* C10: in continuous mode the wait after tick k (ticks counted from 0) is
\* min(2^k, 3600) seconds; the interval is positive and at most an hour in
\* every wait, however large the counter; and once it is an hour it stays one.
C10_Backoff ==
  /\ (continuous /\ schedPc = "wait" =>
        /\ interval = Seconds(BackoffSeconds(counter))
        /\ ~IsNegBV(interval)
        /\ interval # ZeroBV
        /\ ~LessBV(Hour, interval))
  /\ (continuous /\ schedPc = "send" /\ counter > 0 =>
        interval = Seconds(BackoffSeconds(counter - 1)))
  /\ (counter > 12 => interval = Hour)

\* C10's case: a wait far beyond the cap, where 1<<counter no longer fits
C10_Witness ==
  /\ continuous
  /\ schedPc = "wait"
  /\ counter >= 64
  /\ interval = Hour

\* the seconds a record has left
Remaining(srv, t) == srv.expiration - t

\* C11: the answer section of an outgoing query holds exactly the cached
\* records of the browsed service type with more than half their TTL left:
\* a record with TTL 100 s is in it with 60 s left and not with 50 s or 40 s
\* left, and no record of another type is ever in it.
C11_KnownAnswerFilter ==
  [][ntrig' # ntrig =>
       /\ lastQ'.answer
            = {SrvInstanceName(srv) :
                 srv \in {x \in cache :
                            /\ x.Type \o "." \o x.Domain \o "." = service
                            /\ 2 * Remaining(x, now) > x.TTL}}
       /\ \A srv \in cache :
            /\ (srv.Type = "_http._tcp" /\ srv.TTL = 100
                  /\ Remaining(srv, now) = 60)
                 => SrvInstanceName(srv) \in lastQ'.answer
            /\ (srv.TTL = 100 /\ Remaining(srv, now) \in {40, 50})
                 => SrvInstanceName(srv) \notin lastQ'.answer
            /\ srv.Type # "_http._tcp"
                 => SrvInstanceName(srv) \notin lastQ'.answer]_vars

\* C11's case: a query was sent while the cache held a record of the
\* browsed type with 60 of 100 s left, one with exactly 50 of 100 s left and
\* one of another type with 60 of 100 s left; only the first is in the answer
C11_Witness ==
  /\ lastQ.iface # "none"
  /\ \E a, b, c \in cache :
       /\ a.Type = "_http._tcp" /\ a.TTL = 100 /\ Remaining(a, now) = 60
       /\ b.Type = "_http._tcp" /\ b.TTL = 100 /\ Remaining(b, now) = 50
       /\ c.Type # "_http._tcp" /\ c.TTL = 100 /\ Remaining(c, now) = 60
       /\ lastQ.answer = {SrvInstanceName(a)}

\* C12: a failed send does not end the session: after one, lookupType has
\* returned only if ctx is cancelled, and then with ctx.Err(), never with
\* the error of the send; the iteration that sends ends back in the select
\* with cache and announced entries as they were; and while the loop runs,
\* the next query and the next inbound message are taken as ever.
C12_SendErrorAbsorbed ==
  /\ [](sendFailed =>
          /\ (mainPc = "returned" => cancelled)
          /\ result \in {"none", "ctx.Err"}
          /\ (result = "ctx.Err" => cancelled))
  /\ [][ntrig' # ntrig =>
          /\ mainPc' = "select" /\ result' = "none"
          /\ cache' = cache /\ es' = es]_vars
  /\ [](sendFailed /\ (cancelled => mainPc = "select") =>
          /\ (schedPc = "send" => ENABLED RecvQuery)
          /\ (nmsgs < MaxMsgs => ENABLED RecvMsg(MaxMsgs)))

\* C12's case: a send failed, and afterwards an inbound message was handled
\* and announced an entry; the session goes on
C12_Witness ==
  /\ sendFailed
  /\ mainPc = "select"
  /\ lastQ.iface = "none"
  /\ nmsgs = 1
  /\ cbs # <<>>

\* C13: the callbacks of a message are called when both passes are over:
\* each of them finds the announced entries as the handling of the message
\* leaves them.
C13_CallbacksAfterReconcile ==
  [][MsgStep => \A k \in 1 .. Len(seen') : seen'[k] = es']_vars

\* C14: both passes of a message work on one snapshot of the cache: no
\* entry is announced and withdrawn by the same message.
C14_OneSnapshot ==
  [][MsgStep =>
       Range(CallsOf(cbs', "add")) \cap Range(CallsOf(cbs', "rmv")) = {}]_vars

C16_QueryFrame ==
  /\ [][ntrig' # ntrig =>
          cache' = cache /\ es' = es /\ live' = live /\ cbs' = <<>>]_vars
  /\ [][(\/ cache' # cache
          \/ es' # es
          \/ live' # live
          \/ (cbs' # cbs /\ cbs' # <<>>)) => MsgStep]_vars

\* C16's case: a send failed while an announced entry's record had already
\* expired; the entry is still announced and nothing was called
C16_Witness ==
  /\ sendFailed
  /\ lastQ.iface # "none"
  /\ cbs = <<>>
  /\ \E i \in 1 .. Len(es) :
       \E srv \in cache :
         /\ SrvInstanceName(srv) = ServiceInstanceName(es[i])
         /\ Expired(srv, now)

\* the events a step of the loop handles: queries, messages, the return
EventsOfStep ==
  (IF ntrig' # ntrig THEN 1 ELSE 0) + (IF nmsgs' # nmsgs THEN 1 ELSE 0)
    + (IF mainPc' # mainPc THEN 1 ELSE 0)

\* C17: the loop handles one event at a time: a step takes one query, one
\* message or the cancellation, never two; the callbacks of a message are
\* all called within its step, every add before every rmv, and when the step
\* is over the announced pairs are those the callbacks have left; no other
\* step calls a callback or changes the cache.
C17_OneEventAtATime ==
  /\ [][/\ EventsOfStep <= 1
         /\ ntrig' \in {ntrig, ntrig + 1}
         /\ nmsgs' \in {nmsgs, nmsgs + 1}]_vars
  /\ [][MsgStep =>
          /\ \A i, j \in 1 .. Len(cbs') :
               i < j => ~(cbs'[i].op = "rmv" /\ cbs'[j].op = "add")
          /\ live' = LiveAfter(live, cbs')
          /\ Range(PairSeq(es')) = live']_vars
  /\ [][~MsgStep =>
          cache' = cache /\ live' = live /\ cbs' \in {cbs, <<>>}]_vars

\* C17's case: after a query was handled, one message withdrew an entry and
\* announced another
C17_Witness ==
  /\ ntrig >= 1
  /\ nmsgs = 2
  /\ CallsOf(cbs, "add") # <<>>
  /\ CallsOf(cbs, "rmv") # <<>>

\* the entries of the pairs of the browsed type in a snapshot that no entry
\* of entries has
NewEntries(entries, snapshot) ==
  UNION {{NewBrowseEntry(srv, n) :
            n \in {i \in srv.ifaceIPs :
                     <<srv.Name, i>> \notin Range(PairSeq(entries))}}
           : srv \in {x \in snapshot : ServiceName(x) = service}}

\* C18: what cache.Services() returns to the two passes and the entries
\* announced before decide the callbacks and the entries announced after,
\* as sets, whatever order the maps are visited in: add is called for the
\* pairs of the snapshot not announced, rmv for the entries, old or new,
\* whose instance name is not in the snapshot, and the rest stays announced.
C18_OrderIndependent ==
  [][MsgStep =>
       LET adds == NewEntries(es, Services(cache', now))
           rmvs == {e \in Range(es) \cup adds :
                      ServiceInstanceName(e) \notin InstanceNames(snap')}
       IN  /\ Range(CallsOf(cbs', "add")) = adds
           /\ Range(CallsOf(cbs', "rmv")) = rmvs
           /\ Range(es') = (Range(es) \cup adds) \ rmvs]_vars

\* C18's case: a message announced two entries of records that have
\* addresses on two interfaces each, so that the maps of the snapshot can be
\* visited in many orders
C18_Witness ==
  /\ Len(CallsOf(cbs, "add")) >= 2
  /\ Cardinality({srv \in cache :
                    /\ ServiceName(srv) = service
                    /\ Cardinality(srv.ifaceIPs) = 2}) >= 2

\* a step of the scheduler alone: no query changes hands
SchedulerAlone ==
  /\ ntrig' = ntrig
  /\ schedPc' # schedPc \/ counter' # counter \/ qi' # qi

\* C19: the scheduler and the loop share no mutable state: a step of the
\* scheduler leaves the cache, the announced entries and the callbacks
\* alone; the query being sent has a message of its own, a copy of m with
\* no answer; m is never modified; and the answers of a query that is sent
\* are the known answers of the cache at that moment, nothing left over
\* from an earlier round.
C19_NoSharedState ==
  /\ [][SchedulerAlone =>
          cache' = cache /\ es' = es /\ cbs' = cbs /\ live' = live]_vars
  /\ [](schedPc = "send" => msgs.ptr = "copy" /\ msgs.copy = NewMsg)
  /\ [](msgs.m = NewMsg)
  /\ [][ntrig' # ntrig =>
          lastQ'.answer = KnownAnswers(Services(cache, now), now)]_vars

\* C19's case: a query of a later round was sent with known answers, and
\* the next query is waiting with its own copy
C19_Witness ==
  /\ counter >= 1
  /\ lastQ.iface = MulticastInterfaces[1]
  /\ lastQ.answer # {}
  /\ schedPc = "send"

\* C20: in both modes the scheduler first sleeps for a delay between 20 ms
\* and 120 ms, and no query is created or handed over before the sleep is
\* over.
C20_FirstDelay ==
  /\ [](schedPc = "sleep" =>
          /\ jitter >= 20 /\ jitter <= 120
          /\ ntrig = 0 /\ tickTriggers = <<>> /\ msgs.ptr = "none")
  /\ [][ntrig' # ntrig => schedPc # "sleep" /\ jitter = 0]_vars

\* C20's case: in continuous mode the first query changed hands, after the
\* sleep
C20_Witness ==
  /\ continuous
  /\ ntrig = 1
  /\ counter = 0
  /\ jitter = 0
  /\ schedPc = "send"

====
